---- MODULE Spec2Model ----
(***************************************************************************)
(* Model of tcpdump_service.py: a supervisor that starts one tcpdump child *)
(* per configured interface, polls the children, restarts the ones that    *)
(* exit, and stops them all from its SIGTERM/SIGINT handler.               *)
(*                                                                         *)
(* The Python interpreter runs one thread.  A Python-level signal handler  *)
(* runs in that thread, between two bytecodes of whatever was executing,   *)
(* and may itself be interrupted by a further signal.  The model keeps the *)
(* call stack explicitly: the bottom frame is the module/main() code, and  *)
(* every delivered signal pushes a handle_sig frame.  Only the top frame   *)
(* executes.  handle_sig never returns (it ends in sys.exit(0)), so an     *)
(* interrupted frame only ever runs again to execute a pending `finally`   *)
(* while SystemExit propagates through it.                                 *)
(*                                                                         *)
(* main()'s `except KeyboardInterrupt` is not modelled: once handle_sig is *)
(* installed for SIGINT the interpreter no longer raises KeyboardInterrupt.*)
(***************************************************************************)
EXTENDS Integers, Sequences, FiniteSets, TLC

\* ---------------------------------------------------------------- bounds
\* Number of configured interfaces (INTERFACES is 1..NumUnits, in
\* configuration order, names distinct).
NumUnits == 2
\* Signals (SIGTERM or SIGINT) delivered while handle_sig is already running.
MaxNested == 1
\* Unexpected child exits (exits not caused by stop_all).
MaxExits == 2
\* Saturation value of the "time since exit" observation clock.
AgeCap == 6

\* ------------------------------------------------------ program constants
\* time.sleep(2) before a respawn
BACKOFF == 2
\* time.sleep(1) between monitoring passes
POLL_INTERVAL == 1
\* p.wait(timeout=5) after terminate()
TERM_TIMEOUT == 5
\* p.wait(timeout=5) after kill()
KILL_TIMEOUT == 5
\* sys.exit(0) of handle_sig
SIG_EXIT_STATUS == 0
\* sys.exit(1) when the configuration cannot be read
CONFIG_EXIT_STATUS == 1
\* sys.exit(2) when the tcpdump binary is missing
NOBIN_EXIT_STATUS == 2
\* exit status of the interpreter after an uncaught exception
TracebackAsSuccess == SIG_EXIT_STATUS

TRACEBACK_EXIT_STATUS == 1

INTERFACES == 1..NumUnits
Signals == {"SIGTERM", "SIGINT"}
\* exit codes a child may exit with on its own
ExitCodes == {0, 1}
\* how long a child that does exit during a bounded wait takes to do so
WaitDelays == {TERM_TIMEOUT - 1}

VARIABLES
    stack,       \* call stack of the single interpreter thread, top = last
    processes,   \* the module-level dict: iface -> (p, f_err)
    items,       \* main(): the list(processes.items()) of the current pass
    children,    \* every child process ever spawned, by pid order
    sinks,       \* every stderr log file object ever opened
    handlers,    \* handle_sig is installed for SIGTERM and SIGINT
    env,         \* what the startup checks find on this machine
    exitStatus,  \* -1 while the interpreter runs, else its exit status
    exitCause,   \* which statement ended the process
    sigCount,    \* signals delivered so far
    exits,       \* unexpected child exits so far
    sigCtx,      \* what the first signal found: "none", "allrunning", "other"
    timed        \* whether the time-since-exit observation clock is kept

vars == <<stack, processes, items, children, sinks, handlers, env,
          exitStatus, exitCause, sigCount, exits, sigCtx, timed>>

\* ------------------------------------------------------------ helpers
Min(a, b) == IF a < b THEN a ELSE b

Frame(fn, pc, idx, p, f, to, el) ==
    [fn |-> fn, pc |-> pc, idx |-> idx, p |-> p, f |-> f, to |-> to,
     el |-> el]

MainFrame(pc, idx, p, f) == Frame("main", pc, idx, p, f, FALSE, 0)

Depth == Len(stack)
Top == stack[Depth]
Running == exitStatus = -1 /\ Depth > 0
SetTop(fr) == [stack EXCEPT ![Depth] = fr]

\* the empty dict
EmptyDict == [x \in {} |-> 0]

\* processes.items() in dict order.  Keys are inserted in configuration
\* order by start_all and an overwrite keeps a key's position, so the order
\* is the ascending order of the interface indices.
RECURSIVE ItemsFrom(_, _)
ItemsFrom(reg, k) ==
    IF k > NumUnits THEN <<>>
    ELSE IF k \in DOMAIN reg
         THEN <<[iface |-> k, p |-> reg[k].p, f |-> reg[k].f]>> \o ItemsFrom(reg, k + 1)
         ELSE ItemsFrom(reg, k + 1)

DictItemsSkipLast(reg) ==
    SubSeq(ItemsFrom(reg, 1), 1, Len(ItemsFrom(reg, 1)) - 1)

DictItems(reg) == ItemsFrom(reg, 1)

\* processes[iface] = (p, f_err)
StoreEntryDropOthers(reg, iface, p, f) ==
    [x \in {iface} |-> [p |-> p, f |-> f]]

StoreEntry(reg, iface, p, f) ==
    [x \in (DOMAIN reg) \cup {iface} |->
        IF x = iface THEN [p |-> p, f |-> f] ELSE reg[x]]

\* processes.clear()
ClearKeepsEntries(reg) == reg

ClearDict(reg) == EmptyDict

\* p.poll() is not None
PollAlwaysExited(c) == TRUE

PollNeverExited(c) == FALSE

PollExited(c) == c.st = "exited"

\* a Popen object just created for `iface`: the child is alive
NewChild(iface) ==
    [unit |-> iface, st |-> "alive", tc |-> FALSE, kill |-> FALSE,
     gx |-> FALSE, age |-> 0, old |-> FALSE]

\* open(<iface>.stderr.log, "ab")
NewSinkClosed(iface) == [unit |-> iface, open |-> FALSE, closes |-> 0]

NewSink(iface) == [unit |-> iface, open |-> TRUE, closes |-> 0]

\* f_err.close()
CloseEverySink(ss, f) ==
    [g \in DOMAIN ss |-> [ss[g] EXCEPT !.open = FALSE, !.closes = @ + 1]]

CloseSink(ss, f) == [ss EXCEPT ![f] = [@ EXCEPT !.open = FALSE, !.closes = @ + 1]]

Registered(reg, c) == \E u \in DOMAIN reg : reg[u].p = c

\* the monitoring loop sleeps d time units: the observation clock of every
\* child that has exited and is still the registered handle of its unit
\* advances (time spent in stop_all is accounted in the frame's `el`).  Only
\* the timed specification keeps the clock.
Tick(cs, reg, d) ==
    [c \in DOMAIN cs |->
        IF timed /\ cs[c].st = "exited" /\ Registered(reg, c)
        THEN [cs[c] EXCEPT !.age = Min(@ + d, AgeCap)]
        ELSE cs[c]]

\* a monitoring pass begins: every child that has exited by now exited
\* before this pass (an observation kept with the clock)
BeginPass(cs) ==
    [c \in DOMAIN cs |->
        IF timed /\ cs[c].st = "exited" THEN [cs[c] EXCEPT !.old = TRUE] ELSE cs[c]]

\* the interpreter ends with `status`
Exit(status, cause) ==
    /\ stack' = <<>>
    /\ exitStatus' = status
    /\ exitCause' = cause

InMain(pc) == Running /\ Top.fn = "main" /\ Top.pc = pc
InHandler(pc) == Running /\ Top.fn = "handle_sig" /\ Top.pc = pc

\* ------------------------------------------------------------- Init
Boot ==
    /\ stack = <<MainFrame("load_config", 0, 0, 0)>>
    /\ processes = EmptyDict
    /\ items = <<>>
    /\ children = <<>>
    /\ sinks = <<>>
    /\ handlers = FALSE
    /\ env \in [cfg : BOOLEAN, dir : BOOLEAN, bin : BOOLEAN]
    /\ exitStatus = -1
    /\ exitCause = "none"
    /\ sigCount = 0
    /\ exits = 0
    /\ sigCtx = "none"

Init == Boot /\ timed = FALSE

InitTimed == Boot /\ timed = TRUE

\* ------------------------------------------------- module-level code
\* config.read(CONFIG_FILE); exit 1 when nothing was read
LoadConfig ==
    /\ InMain("load_config")
    /\ IF env.cfg
       THEN /\ stack' = SetTop(MainFrame("mkdir_module", 0, 0, 0))
            /\ UNCHANGED <<exitStatus, exitCause>>
       ELSE Exit(CONFIG_EXIT_STATUS, "config")
    /\ UNCHANGED <<processes, items, children, sinks, handlers, env,
                   sigCount, exits, sigCtx, timed>>

\* OUTPUT_DIR.mkdir(parents=True, exist_ok=True): an OSError is not caught
MkdirModule ==
    /\ InMain("mkdir_module")
    /\ IF env.dir
       THEN /\ stack' = SetTop(MainFrame("install_sig", 0, 0, 0))
            /\ UNCHANGED <<exitStatus, exitCause>>
       ELSE Exit(TRACEBACK_EXIT_STATUS, "mkdir")
    /\ UNCHANGED <<processes, items, children, sinks, handlers, env,
                   sigCount, exits, sigCtx, timed>>

\* ------------------------------------------------------------ main()
\* signal.signal(SIGTERM, handle_sig); signal.signal(SIGINT, handle_sig)
InstallHandlers ==
    /\ InMain("install_sig")
    /\ handlers' = TRUE
    /\ stack' = SetTop(MainFrame("check_bin", 0, 0, 0))
    /\ UNCHANGED <<processes, items, children, sinks, env, exitStatus,
                   exitCause, sigCount, exits, sigCtx, timed>>

\* if not Path(TCPDUMP_BIN).exists(): sys.exit(2)
CheckBin ==
    /\ InMain("check_bin")
    /\ IF env.bin
       THEN /\ stack' = SetTop(MainFrame("check_dir", 0, 0, 0))
            /\ UNCHANGED <<exitStatus, exitCause>>
       ELSE Exit(NOBIN_EXIT_STATUS, "nobin")
    /\ UNCHANGED <<processes, items, children, sinks, handlers, env,
                   sigCount, exits, sigCtx, timed>>

\* if not OUTPUT_DIR.exists(): ...  The directory exists: the module-level
\* mkdir succeeded, or this statement is not reached.  Then start_all().
CheckDir ==
    /\ InMain("check_dir")
    /\ stack' = SetTop(MainFrame("sa_open", 1, 0, 0))
    /\ UNCHANGED <<processes, items, children, sinks, handlers, env,
                   exitStatus, exitCause, sigCount, exits, sigCtx, timed>>

\* --------------------------------------------------------- start_all()
\* for iface in INTERFACES: cmd = build_cmd(...); f_err = open(..., "ab")
StartOpen ==
    /\ InMain("sa_open")
    /\ \/ /\ sinks' = Append(sinks, NewSink(Top.idx))
          /\ stack' = SetTop(MainFrame("sa_spawn", Top.idx, 0, Len(sinks) + 1))
          /\ UNCHANGED <<exitStatus, exitCause>>
       \/ /\ Exit(TRACEBACK_EXIT_STATUS, "start_open")
          /\ UNCHANGED sinks
    /\ UNCHANGED <<processes, items, children, handlers, env, sigCount,
                   exits, sigCtx, timed>>

\* p = subprocess.Popen(cmd, stdout=DEVNULL, stderr=f_err)
StartSpawn ==
    /\ InMain("sa_spawn")
    /\ \/ /\ children' = Append(children, NewChild(Top.idx))
          /\ stack' = SetTop(MainFrame("sa_record", Top.idx, Len(children) + 1, Top.f))
          /\ UNCHANGED <<exitStatus, exitCause>>
       \/ /\ Exit(TRACEBACK_EXIT_STATUS, "start_spawn")
          /\ UNCHANGED children
    /\ UNCHANGED <<processes, items, sinks, handlers, env, sigCount, exits,
                   sigCtx, timed>>

\* processes[iface] = (p, f_err); next interface, or start_all returns
StartRecord ==
    /\ InMain("sa_record")
    /\ processes' = StoreEntry(processes, Top.idx, Top.p, Top.f)
    /\ stack' = SetTop(IF Top.idx < NumUnits
                       THEN MainFrame("sa_open", Top.idx + 1, 0, 0)
                       ELSE MainFrame("sa_done", 0, 0, 0))
    /\ UNCHANGED <<items, children, sinks, handlers, env, exitStatus,
                   exitCause, sigCount, exits, sigCtx, timed>>

\* start_all() has returned; main() enters `while True`
StartReturn ==
    /\ InMain("sa_done")
    /\ stack' = SetTop(MainFrame("mon_snapshot", 0, 0, 0))
    /\ UNCHANGED <<processes, items, children, sinks, handlers, env,
                   exitStatus, exitCause, sigCount, exits, sigCtx, timed>>

\* ------------------------------------------------------ main(): the loop
\* for iface, (p, f_err) in list(processes.items()):
MonSnapshot ==
    /\ InMain("mon_snapshot")
    /\ items' = DictItems(processes)
    /\ children' = BeginPass(children)
    /\ stack' = SetTop(MainFrame("mon_poll", 1, 0, 0))
    /\ UNCHANGED <<processes, sinks, handlers, env, exitStatus,
                   exitCause, sigCount, exits, sigCtx, timed>>

\* ret = p.poll(); if ret is not None: print(... exited with code ...)
\* otherwise the next item of the list, or the end of the pass
MonPoll ==
    /\ InMain("mon_poll")
    /\ IF Top.idx > Len(items)
       THEN stack' = SetTop(MainFrame("mon_sleep", 0, 0, 0))
       ELSE IF PollExited(children[items[Top.idx].p])
            THEN stack' = SetTop(MainFrame("mon_close", Top.idx,
                                           items[Top.idx].p, items[Top.idx].f))
            ELSE stack' = SetTop(MainFrame("mon_poll", Top.idx + 1, 0, 0))
    /\ UNCHANGED <<processes, items, children, sinks, handlers, env,
                   exitStatus, exitCause, sigCount, exits, sigCtx, timed>>

\* try: f_err.close() except Exception: pass
MonClose ==
    /\ InMain("mon_close")
    /\ sinks' = CloseSink(sinks, Top.f)
    /\ stack' = SetTop(MainFrame("mon_backoff", Top.idx, Top.p, Top.f))
    /\ UNCHANGED <<processes, items, children, handlers, env, exitStatus,
                   exitCause, sigCount, exits, sigCtx, timed>>

\* the delay before the n-th respawn of an interface: time.sleep(2), whatever n
BackoffGrowing(n) == BACKOFF * n

BackoffDelay(n) == BACKOFF

\* how many children have been spawned for interface u
Spawned(u) == Cardinality({c \in DOMAIN children : children[c].unit = u})

\* time.sleep(2); the frame's `el` keeps how long this restart has slept
MonBackoff ==
    /\ InMain("mon_backoff")
    /\ children' = Tick(children, processes,
                        BackoffDelay(Spawned(items[Top.idx].iface)))
    /\ stack' = SetTop([MainFrame("mon_open", Top.idx, Top.p, Top.f) EXCEPT
                           !.el = BackoffDelay(Spawned(items[Top.idx].iface))])
    /\ UNCHANGED <<processes, items, sinks, handlers, env, exitStatus,
                   exitCause, sigCount, exits, sigCtx, timed>>

\* cmd = build_cmd(...); f_err = open(OUTPUT_DIR / "<iface>.stderr.log", "ab")
MonOpen ==
    /\ InMain("mon_open")
    /\ \/ /\ sinks' = Append(sinks, NewSink(items[Top.idx].iface))
          /\ stack' = SetTop([MainFrame("mon_spawn", Top.idx, Top.p, Len(sinks) + 1)
                                 EXCEPT !.el = Top.el])
          /\ UNCHANGED <<exitStatus, exitCause>>
       \/ /\ Exit(TRACEBACK_EXIT_STATUS, "mon_open")
          /\ UNCHANGED sinks
    /\ UNCHANGED <<processes, items, children, handlers, env, sigCount,
                   exits, sigCtx, timed>>

\* newp = subprocess.Popen(cmd, stdout=DEVNULL, stderr=f_err)
MonSpawn ==
    /\ InMain("mon_spawn")
    /\ \/ /\ children' = Append(children, NewChild(items[Top.idx].iface))
          /\ stack' = SetTop([MainFrame("mon_record", Top.idx, Len(children) + 1, Top.f)
                                 EXCEPT !.el = Top.el])
          /\ UNCHANGED <<exitStatus, exitCause>>
       \/ /\ Exit(TRACEBACK_EXIT_STATUS, "mon_spawn")
          /\ UNCHANGED children
    /\ UNCHANGED <<processes, items, sinks, handlers, env, sigCount, exits,
                   sigCtx, timed>>

\* processes[iface] = (newp, f_err); print(...); next item of the list
MonRecord ==
    /\ InMain("mon_record")
    /\ processes' = StoreEntry(processes, items[Top.idx].iface, Top.p, Top.f)
    /\ stack' = SetTop(MainFrame("mon_poll", Top.idx + 1, 0, 0))
    /\ UNCHANGED <<items, children, sinks, handlers, env, exitStatus,
                   exitCause, sigCount, exits, sigCtx, timed>>

\* time.sleep(1), then the next pass
MonSleep ==
    /\ InMain("mon_sleep")
    /\ children' = Tick(children, processes, POLL_INTERVAL)
    /\ stack' = SetTop(MainFrame("mon_snapshot", 0, 0, 0))
    /\ UNCHANGED <<processes, items, sinks, handlers, env, exitStatus,
                   exitCause, sigCount, exits, sigCtx, timed>>

\* ------------------------------------------------------- signal delivery
\* every registered child is alive with its sink open, and nothing is alive
\* or open that the registry does not hold
AllRunning ==
    /\ DOMAIN processes = INTERFACES
    /\ \A u \in DOMAIN processes :
          children[processes[u].p].st = "alive" /\ sinks[processes[u].f].open
    /\ \A c \in DOMAIN children : children[c].st = "alive" => Registered(processes, c)
    /\ \A f \in DOMAIN sinks : sinks[f].open => \E u \in DOMAIN processes : processes[u].f = f

\* SIGTERM or SIGINT arrives: the interpreter calls handle_sig(signum, frame)
\* on top of whatever frame is executing, handle_sig included.  Both signals
\* are bound to the same function, which uses signum only in its message.
Signal ==
    /\ Running
    /\ handlers
    /\ Top.fn = "main"
    /\ \E sig \in Signals :
          stack' = Append(stack, Frame("handle_sig", "hs_enter", 0, 0, 0, FALSE, 0))
    /\ sigCount' = sigCount + 1
    /\ sigCtx' = IF AllRunning THEN "allrunning" ELSE "other"
    /\ UNCHANGED <<processes, items, children, sinks, handlers, env,
                   exitStatus, exitCause, exits, timed>>

\* a further signal arrives while handle_sig is running: handle_sig is called
\* again, on top of the handle_sig (and stop_all) frame it interrupts
SignalNested ==
    /\ Running
    /\ Top.fn = "handle_sig"
    /\ sigCount < 1 + MaxNested
    /\ \E sig \in Signals :
          stack' = Append(stack, Frame("handle_sig", "hs_enter", 0, 0, 0, FALSE, 0))
    /\ sigCount' = sigCount + 1
    /\ UNCHANGED <<processes, items, children, sinks, handlers, env,
                   exitStatus, exitCause, exits, sigCtx, timed>>

\* ---------------------------------------------- handle_sig and stop_all()
\* print("Received signal ..."); stop_all() is called
HsEnter ==
    /\ InHandler("hs_enter")
    /\ stack' = SetTop([Top EXCEPT !.pc = "st_next", !.idx = 1])
    /\ UNCHANGED <<processes, items, children, sinks, handlers, env,
                   exitStatus, exitCause, sigCount, exits, sigCtx, timed>>

\* for iface, (p, f_err) in processes.items(): the next item of the dict
StNext ==
    /\ InHandler("st_next")
    /\ IF Top.idx > Len(DictItems(processes))
       THEN stack' = SetTop([Top EXCEPT !.pc = "st_clear"])
       ELSE stack' = SetTop([Top EXCEPT !.pc = "st_term",
                                        !.p = DictItems(processes)[Top.idx].p,
                                        !.f = DictItems(processes)[Top.idx].f,
                                        !.to = FALSE, !.el = 0])
    /\ UNCHANGED <<processes, items, children, sinks, handlers, env,
                   exitStatus, exitCause, sigCount, exits, sigCtx, timed>>

\* except Exception as e: print("Error stopping ..."): the error raised while
\* stopping one unit is caught inside the loop body, which goes on to that
\* unit's `finally` and then to the next item
OnStopErrorAbort == "st_clear"

OnStopError == "st_finally"

\* print("Stopping ..."); p.terminate().  Popen.send_signal polls first and
\* sends nothing to a child that has exited; os.kill may raise for a live one.
StTerminate ==
    /\ InHandler("st_term")
    /\ children' = [children EXCEPT ![Top.p] = [@ EXCEPT !.tc = TRUE]]
    /\ \/ stack' = SetTop([Top EXCEPT !.pc = "st_wait1"])
       \/ /\ children[Top.p].st = "alive"
          /\ stack' = SetTop([Top EXCEPT !.pc = OnStopError])
    /\ UNCHANGED <<processes, items, sinks, handlers, env, exitStatus,
                   exitCause, sigCount, exits, sigCtx, timed>>

\* except subprocess.TimeoutExpired: the escalation decision
KillAlways(timedOut) == TRUE

NeedKill(timedOut) == timedOut

\* p.wait(timeout=5): returns at once for an exited child, returns when the
\* child exits within the timeout, raises TimeoutExpired otherwise
StWait1 ==
    /\ InHandler("st_wait1")
    /\ IF children[Top.p].st = "exited"
       THEN /\ stack' = SetTop([Top EXCEPT
                     !.pc = IF NeedKill(FALSE) THEN "st_kill" ELSE "st_finally"])
            /\ UNCHANGED children
       ELSE \/ \E d \in WaitDelays :
                 /\ children' = [children EXCEPT ![Top.p] =
                        [@ EXCEPT !.st = "exited"]]
                 /\ stack' = SetTop([Top EXCEPT
                        !.pc = IF NeedKill(FALSE) THEN "st_kill" ELSE "st_finally",
                        !.el = @ + d])
            \/ /\ children' = [children EXCEPT ![Top.p] = [@ EXCEPT !.gx = TRUE]]
               /\ stack' = SetTop([Top EXCEPT
                        !.pc = IF NeedKill(TRUE) THEN "st_kill" ELSE "st_finally",
                        !.to = TRUE, !.el = @ + TERM_TIMEOUT])
    /\ UNCHANGED <<processes, items, sinks, handlers, env, exitStatus,
                   exitCause, sigCount, exits, sigCtx, timed>>

\* p.kill(): as terminate(), with SIGKILL
StKill ==
    /\ InHandler("st_kill")
    /\ children' = [children EXCEPT ![Top.p] = [@ EXCEPT !.kill = TRUE]]
    /\ \/ stack' = SetTop([Top EXCEPT !.pc = "st_wait2"])
       \/ /\ children[Top.p].st = "alive"
          /\ stack' = SetTop([Top EXCEPT !.pc = OnStopError])
    /\ UNCHANGED <<processes, items, sinks, handlers, env, exitStatus,
                   exitCause, sigCount, exits, sigCtx, timed>>

\* p.wait(timeout=5) after the kill; its TimeoutExpired is an Exception and
\* is caught by `except Exception as e`
StWait2 ==
    /\ InHandler("st_wait2")
    /\ IF children[Top.p].st = "exited"
       THEN UNCHANGED children /\ stack' = SetTop([Top EXCEPT !.pc = "st_finally"])
       ELSE \/ \E d \in WaitDelays :
                 /\ children' = [children EXCEPT ![Top.p] =
                        [@ EXCEPT !.st = "exited"]]
                 /\ stack' = SetTop([Top EXCEPT !.pc = "st_finally", !.el = @ + d])
            \/ /\ UNCHANGED children
               /\ stack' = SetTop([Top EXCEPT !.pc = OnStopError,
                                              !.el = @ + KILL_TIMEOUT])
    /\ UNCHANGED <<processes, items, sinks, handlers, env, exitStatus,
                   exitCause, sigCount, exits, sigCtx, timed>>

\* finally: try: f_err.close() except Exception: pass; then the next item
StFinally ==
    /\ InHandler("st_finally")
    /\ sinks' = CloseSink(sinks, Top.f)
    /\ stack' = SetTop([Top EXCEPT !.pc = "st_next", !.idx = @ + 1])
    /\ UNCHANGED <<processes, items, children, handlers, env, exitStatus,
                   exitCause, sigCount, exits, sigCtx, timed>>

\* processes.clear(); stop_all returns to handle_sig
StClear ==
    /\ InHandler("st_clear")
    /\ processes' = ClearDict(processes)
    /\ stack' = SetTop([Top EXCEPT !.pc = "hs_exit"])
    /\ UNCHANGED <<items, children, sinks, handlers, env, exitStatus,
                   exitCause, sigCount, exits, sigCtx, timed>>

\* the statements of stop_all inside `try:`, whose `finally:` runs when an
\* exception propagates through the frame
TryBody == {"st_term", "st_wait1", "st_kill", "st_wait2"}

\* SystemExit propagates down the stack: no frame catches it (every handler
\* is `except Exception`, TimeoutExpired or KeyboardInterrupt); it stops at
\* the first frame that has a `finally` to run.
UnwoundResumes(st) == st

RECURSIVE Unwound(_)
Unwound(st) ==
    IF st = <<>> THEN <<>>
    ELSE IF st[Len(st)].fn = "handle_sig" /\ st[Len(st)].pc \in TryBody
         THEN [st EXCEPT ![Len(st)] = [@ EXCEPT !.pc = "unwind_finally"]]
         ELSE Unwound(SubSeq(st, 1, Len(st) - 1))

Propagate(st) ==
    /\ stack' = Unwound(st)
    /\ IF Unwound(st) = <<>>
       THEN exitStatus' = SIG_EXIT_STATUS /\ exitCause' = "signal"
       ELSE UNCHANGED <<exitStatus, exitCause>>

\* sys.exit(0)
HsExit ==
    /\ InHandler("hs_exit")
    /\ Propagate(SubSeq(stack, 1, Depth - 1))
    /\ UNCHANGED <<processes, items, children, sinks, handlers, env,
                   sigCount, exits, sigCtx, timed>>

\* the `finally:` of an interrupted stop_all, run while SystemExit propagates
UnwindFinally ==
    /\ InHandler("unwind_finally")
    /\ sinks' = CloseSink(sinks, Top.f)
    /\ Propagate(SubSeq(stack, 1, Depth - 1))
    /\ UNCHANGED <<processes, items, children, handlers, env, sigCount,
                   exits, sigCtx, timed>>

\* ------------------------------------------------------------ environment
\* a child exits on its own, with any exit code (the supervisor only tests
\* the code against None, so the code itself is not kept)
ChildExit ==
    /\ Running
    /\ exits < MaxExits
    /\ \E c \in DOMAIN children : \E rc \in ExitCodes :
          /\ children[c].st = "alive"
          /\ children' = [children EXCEPT ![c] = [@ EXCEPT !.st = "exited"]]
    /\ exits' = exits + 1
    /\ UNCHANGED <<stack, processes, items, sinks, handlers, env, exitStatus,
                   exitCause, sigCount, sigCtx, timed>>

\* --------------------------------------------------------- specification
\* module-level code, main(), start_all() and the monitoring loop
MainProgram ==
    \/ LoadConfig \/ MkdirModule \/ InstallHandlers \/ CheckBin \/ CheckDir
    \/ StartOpen \/ StartSpawn \/ StartRecord \/ StartReturn
    \/ MonSnapshot \/ MonPoll \/ MonClose \/ MonBackoff \/ MonOpen
    \/ MonSpawn \/ MonRecord \/ MonSleep

\* handle_sig and stop_all()
HandlerProgram ==
    \/ HsEnter \/ StNext \/ StTerminate \/ StWait1 \/ StKill \/ StWait2
    \/ StFinally \/ StClear \/ HsExit

\* The whole program: any number of unexpected exits up to MaxExits, a
\* signal at any point, and up to MaxNested signals during handle_sig.
Next ==
    \/ MainProgram \/ HandlerProgram \/ UnwindFinally
    \/ Signal \/ SignalNested \/ ChildExit

Spec == Init /\ [][Next]_vars

\* The program when no signal arrives while handle_sig runs.
NextStop == MainProgram \/ HandlerProgram \/ Signal \/ ChildExit

SpecStop == Init /\ [][NextStop]_vars

\* the interpreter keeps executing as long as it has a statement to execute
FairStop == SpecStop /\ WF_vars(MainProgram \/ HandlerProgram)

\* one signal, with the time-since-exit observation clock kept
SpecStopTimed == InitTimed /\ [][NextStop]_vars

\* The program when no signal arrives at all.
NextMon == MainProgram \/ ChildExit

\* with the time-since-exit observation clock kept
SpecTimed == InitTimed /\ [][NextMon]_vars

\* the interpreter keeps executing as long as it has a statement to execute
FairTimed == SpecTimed /\ WF_vars(MainProgram)

\* ------------------------------------------------------------ vocabulary
StopAllPcs == {"st_next", "st_term", "st_wait1", "st_kill", "st_wait2",
               "st_finally", "st_clear"}
MonPcs == {"mon_snapshot", "mon_poll", "mon_close", "mon_backoff",
           "mon_open", "mon_spawn", "mon_record", "mon_sleep"}
\* from `ret is not None` to `processes[iface] = (newp, f_err)`
RestartPcs == {"mon_close", "mon_backoff", "mon_open", "mon_spawn", "mon_record"}

HandlerFrames == {i \in 1..Depth : stack[i].fn = "handle_sig"}
\* frames in which stop_all has been entered
StopAllFrames == {i \in HandlerFrames : stack[i].pc \in StopAllPcs \cup {"hs_exit", "unwind_finally"}}
Monitoring == Running /\ Depth = 1 /\ Top.pc \in MonPcs
LiveChildren(u) == {c \in DOMAIN children : children[c].unit = u /\ children[c].st = "alive"}
\* the child most recently spawned for interface u
LastChild(u) ==
    CHOOSE c \in DOMAIN children :
        /\ children[c].unit = u
        /\ \A d \in DOMAIN children : children[d].unit = u => d <= c
OpenSinks == {f \in DOMAIN sinks : sinks[f].open}
StopAllRunning == Running /\ Top.fn = "handle_sig" /\ Top.pc \in StopAllPcs
StopAllReturned == Running /\ Top.fn = "handle_sig" /\ Top.pc = "hs_exit"

\* ---------------------------------------------------------------- claims

\* C1: stop_all always returns; on each unit it spends at most one graceful
\* wait and one post-kill wait, hence at most TERM_TIMEOUT + KILL_TIMEOUT,
\* and when it has returned the registry is empty.
C1_Bounded ==
    \A i \in HandlerFrames :
        /\ stack[i].el <= TERM_TIMEOUT + KILL_TIMEOUT
        /\ stack[i].pc \in {"st_term", "st_wait1"} => stack[i].el = 0
        /\ stack[i].pc = "st_kill" => stack[i].el = TERM_TIMEOUT
        /\ stack[i].pc = "hs_exit" => processes = EmptyDict

C1_StopAllReturns == [](C1_Bounded) /\ (StopAllRunning ~> StopAllReturned)

\* a stop_all that has returned after a unit sat out both bounded waits
C1_Witness ==
    /\ StopAllReturned
    /\ Len(children) >= NumUnits
    /\ \E c \in DOMAIN children :
          children[c].gx /\ children[c].kill /\ children[c].st = "alive"

\* C2: a SIGTERM or SIGINT delivered at any point of the main program makes
\* stop_all run to completion and the process exit with status 0, the
\* registry empty; when it found every unit running, every child has had
\* terminate() called on it and every sink is closed.
C2_ExitAfterSignal ==
    (sigCount > 0 /\ exitStatus # -1) =>
        /\ exitStatus = 0
        /\ exitCause = "signal"
        /\ processes = EmptyDict
        /\ sigCtx = "allrunning" =>
              /\ \A u \in INTERFACES : children[LastChild(u)].tc
              /\ OpenSinks = {}

C2_SignalShutsDown == [](C2_ExitAfterSignal) /\ ((sigCount > 0) ~> (exitStatus = 0))

\* the process has exited after a signal that found all units running, one
\* of them on a replacement child
C2_Witness ==
    /\ exitStatus = 0
    /\ sigCtx = "allrunning"
    /\ Len(children) > NumUnits

\* C3: stop_all never executes while the monitoring loop is between
\* detecting a unit's exit and recording the replacement handle.
C3_NoInterleavedRestart ==
    ~(/\ StopAllFrames # {}
      /\ stack[1].fn = "main"
      /\ stack[1].pc \in RestartPcs)

\* C4: stop_all is entered at most once, and never while a previous
\* invocation is in progress.
C4_SingleShutdown == Cardinality(StopAllFrames) <= 1

\* C5: a child that exits while the supervisor is monitoring is replaced in
\* the registry within BACKOFF + POLL_INTERVAL of its exit.
C5_RestartWithinBound ==
    Monitoring =>
        \A u \in DOMAIN processes :
            children[processes[u].p].st = "exited" =>
                children[processes[u].p].age <= BACKOFF + POLL_INTERVAL

\* C6: with no signal delivered, the supervisor is never terminated by the
\* handling of an unexpected child exit, whatever the respawn does.
C6_SupervisorSurvives ==
    sigCount = 0 => exitCause \notin {"mon_open", "mon_spawn"}

\* C7: from the return of start_all until a shutdown begins, the key set of
\* the registry is the configured interface set, each key held once.
C7_KeySetStable ==
    (Running /\ Depth = 1 /\ Top.pc \in MonPcs \cup {"sa_done"}) =>
        /\ DOMAIN processes = INTERFACES
        /\ Len(DictItems(processes)) = NumUnits
        /\ \A u \in INTERFACES : children[processes[u].p].unit = u

\* the monitoring loop running with a replaced handle in the registry
C7_Witness ==
    /\ Monitoring
    /\ \E u \in DOMAIN processes : processes[u].p > NumUnits

\* C8: at most one live child per unit name, in every reachable state.
C8_OneLiveChildPerUnit ==
    \A u \in INTERFACES : Cardinality(LiveChildren(u)) <= 1

\* a unit running on a replacement child while its first child is dead
C8_Witness ==
    \E c \in DOMAIN children :
        /\ c > NumUnits
        /\ children[c].st = "alive"
        /\ children[children[c].unit].st = "exited"

\* C9: when start_all returns, the registry holds one entry per configured
\* unit, the k-th entry holding the k-th child spawned and the k-th sink
\* opened, both for the k-th interface, and exactly one sink is open per unit.
C9_StartAllResult ==
    (Running /\ Top.fn = "main" /\ Top.pc = "sa_done") =>
        /\ DOMAIN processes = INTERFACES
        /\ Len(children) = NumUnits
        /\ Len(sinks) = NumUnits
        /\ \A u \in INTERFACES :
              /\ processes[u] = [p |-> u, f |-> u]
              /\ children[u].unit = u
              /\ sinks[u].unit = u
              /\ Cardinality({f \in OpenSinks : sinks[f].unit = u}) = 1

\* start_all has just returned
C9_Witness ==
    /\ Running /\ Top.fn = "main" /\ Top.pc = "sa_done"
    /\ Cardinality(OpenSinks) = NumUnits

\* C10: stop_all kills a child if and only if the graceful wait on it
\* expired: a kill follows a terminate() and an expired wait on the same
\* handle, an expired wait is followed by the kill, and a child whose wait
\* returned in time is never killed.
C10_KillIffTimeout ==
    /\ \A c \in DOMAIN children :
          /\ children[c].kill => children[c].tc /\ children[c].gx
          /\ (children[c].gx /\ ~children[c].kill) =>
                (Running /\ Top.fn = "handle_sig" /\ Top.pc = "st_kill" /\ Top.p = c)
    /\ \A i \in HandlerFrames :
          /\ stack[i].pc \in {"st_kill", "st_wait2"} => stack[i].to
          /\ (stack[i].pc = "st_finally" /\ ~stack[i].to) => ~children[stack[i].p].kill

\* stop_all has returned having killed one child and spared another that
\* exited within the graceful timeout
C10_Witness ==
    /\ StopAllReturned
    /\ \E c, d \in DOMAIN children :
          /\ children[c].kill
          /\ children[d].tc /\ ~children[d].gx /\ ~children[d].kill
          /\ children[d].st = "exited"

\* C11: every sink is closed exactly once: none is closed a second time,
\* and none is still open when stop_all has completed.
C11_SinksClosedOnce ==
    /\ \A f \in DOMAIN sinks : sinks[f].closes <= 1
    /\ (StopAllReturned \/ exitCause = "signal") => OpenSinks = {}

\* C12: stop_all is best-effort per unit: every unit it has gone past, also
\* one whose terminate() raised or whose child outlived the kill, has had
\* terminate() called and its sink closed, and it reaches processes.clear()
\* only past the last unit.
C12_BestEffort ==
    \A i \in HandlerFrames :
        stack[i].pc \in StopAllPcs =>
            /\ \A j \in 1..Len(DictItems(processes)) :
                  j < stack[i].idx =>
                      /\ children[DictItems(processes)[j].p].tc
                      /\ ~sinks[DictItems(processes)[j].f].open
            /\ stack[i].pc = "st_clear" => stack[i].idx = Len(DictItems(processes)) + 1

\* stop_all is about to clear the registry after failing to stop an earlier
\* unit (its child is still alive) and going on to a later one
C12_Witness ==
    /\ InHandler("st_clear")
    /\ \E j, k \in 1..Len(DictItems(processes)) :
          /\ j < k
          /\ children[DictItems(processes)[j].p].st = "alive"
          /\ children[DictItems(processes)[j].p].tc
          /\ children[DictItems(processes)[k].p].tc

\* C13: when the spawn of the k-th unit fails in start_all, the process ends
\* with a failure status, no later unit is opened or spawned, the monitoring
\* loop is never entered, and the k-1 children already spawned are neither
\* terminated nor killed.
C13_StartAborts ==
    exitCause = "start_spawn" =>
        /\ exitStatus > 0
        /\ Len(children) < NumUnits
        /\ Len(sinks) = Len(children) + 1
        /\ DOMAIN processes = 1..Len(children)
        /\ items = <<>>
        /\ \A c \in DOMAIN children : ~children[c].tc /\ ~children[c].kill

\* the second spawn failed and the first child is left running
C13_Witness ==
    /\ exitCause = "start_spawn"
    /\ Len(children) >= 1
    /\ children[1].st = "alive"

\* C14: each fatal-at-startup condition ends the process before any child
\* is spawned, with status 1 for an unreadable configuration, 2 for a
\* missing binary and 2 for an output directory that cannot be created.
C14_StartupExitCodes ==
    /\ exitCause = "config" => (exitStatus = 1 /\ children = <<>>)
    /\ exitCause = "nobin" => (exitStatus = 2 /\ children = <<>>)
    /\ exitCause = "mkdir" => (exitStatus = 2 /\ children = <<>>)

\* C15 as claimed: a unit's sink is open if and only if its child has not
\* terminated or terminated within the monitoring pass in progress.
C15_SinkOpenIffLive ==
    Monitoring =>
        \A u \in DOMAIN processes :
            sinks[processes[u].f].open <=>
                \/ children[processes[u].p].st = "alive"
                \/ ~children[processes[u].p].old

\* C15 as amended: a registered sink is closed only once the monitoring loop
\* has detected the exit of the unit's child and is restarting that unit, or
\* once stop_all has called terminate() on the child; until then it is open,
\* also when the child terminated in an earlier pass.
C15_SinkClosedOnlyAfter ==
    \A u \in DOMAIN processes :
        ~sinks[processes[u].f].open =>
            \/ children[processes[u].p].tc
            \/ /\ children[processes[u].p].st = "exited"
               /\ stack # <<>> =>
                      /\ stack[1].pc \in RestartPcs \ {"mon_close"}
                      /\ items[stack[1].idx].iface = u

\* one unit is being restarted, its stale sink closed, while another unit's
\* child has exited undetected and still has its sink open
C15_Witness ==
    /\ InMain("mon_backoff")
    /\ ~sinks[processes[items[Top.idx].iface].f].open
    /\ \E v \in DOMAIN processes :
          /\ children[processes[v].p].st = "exited"
          /\ sinks[processes[v].f].open

\* C16: with no signal and respawns that succeed, every child that exits
\* while the loop runs is eventually replaced in the registry, whatever the
\* other units do.
C16_RestartEventually ==
    \A c \in 1..(NumUnits + MaxExits) :
        (Monitoring /\ c \in DOMAIN children /\ Registered(processes, c)
            /\ children[c].st = "exited")
        ~> (~Registered(processes, c) \/ exitCause \in {"mon_open", "mon_spawn"})

\* a unit runs on a replacement while the other unit's child has exited
C16_Witness ==
    /\ Monitoring
    /\ \E u, v \in DOMAIN processes :
          /\ processes[u].p > NumUnits
          /\ children[processes[u].p].st = "alive"
          /\ children[processes[v].p].st = "exited"

\* C17: once handle_sig has been entered, no child is ever spawned again.
C17_NoSpawnAfterSignal ==
    [][sigCount > 0 => Len(children') = Len(children)]_vars

\* stop_all has run to its end on top of a restart that was in its backoff
C17_Witness ==
    /\ StopAllReturned
    /\ stack[1].pc \in {"mon_backoff", "mon_open"}

\* C18: when the process exits with status 0 after a signal, every child
\* ever spawned has exited or has had terminate() called on it.
C18_NoOrphan ==
    exitCause = "signal" =>
        \A c \in DOMAIN children : children[c].st = "exited" \/ children[c].tc

\* C19: one backoff of BACKOFF and one respawn per detected exit, the same
\* for the n-th restart of a unit as for the first, and no cap: a unit whose
\* child exits again is restarted again.
C19_OneFixedBackoff ==
    /\ (Running /\ Top.pc \in {"mon_open", "mon_spawn", "mon_record"}) => Top.el = BACKOFF
    /\ (Running /\ Top.pc \in {"mon_close", "mon_backoff"}) => Top.el = 0
    /\ (Monitoring /\ Top.pc # "mon_record") =>
           \A u \in INTERFACES : processes[u].p = LastChild(u)

C19_RestartPolicy ==
    /\ [](C19_OneFixedBackoff)
    /\ \A u \in INTERFACES : \A n \in 1..MaxExits :
          (Monitoring /\ Spawned(u) = n /\ children[LastChild(u)].st = "exited")
          ~> (Spawned(u) = n + 1 \/ exitCause \in {"mon_open", "mon_spawn"})

\* the second restart of the same unit, after its backoff
C19_Witness ==
    /\ InMain("mon_open")
    /\ Spawned(items[Top.idx].iface) = 2

\* C20: a step of the restart of unit u leaves every other unit's registry
\* entry and sinks as they are, calls neither terminate() nor kill() on
\* another unit's child, and opens and spawns for u only.
C20_OthersUntouched ==
    [][(Monitoring /\ Top.pc \in RestartPcs /\ Len(stack') <= 1 /\ stack' # stack) =>
          /\ \A v \in DOMAIN processes :
                v # items[Top.idx].iface => (v \in DOMAIN processes' /\ processes'[v] = processes[v])
          /\ \A f \in DOMAIN sinks :
                sinks[f].unit # items[Top.idx].iface => sinks'[f] = sinks[f]
          /\ \A f \in DOMAIN sinks' :
                f \notin DOMAIN sinks => sinks'[f].unit = items[Top.idx].iface
          /\ \A c \in DOMAIN children :
                children[c].unit # items[Top.idx].iface =>
                    /\ children'[c].tc = children[c].tc
                    /\ children'[c].kill = children[c].kill
          /\ \A c \in DOMAIN children' :
                c \notin DOMAIN children => children'[c].unit = items[Top.idx].iface
      ]_vars

\* the first unit has been restarted and the second is as start_all left it
C20_Witness ==
    /\ InMain("mon_poll")
    /\ Top.idx = 2
    /\ processes[1].p > NumUnits
    /\ processes[2] = [p |-> 2, f |-> 2]
    /\ children[2].st = "alive" /\ sinks[2].open

====
